---- MODULE Spec2Model ----
(***************************************************************************)
(* A model of utils/load_sba.py: loading a binary image into SRAM through  *)
(* the RISC-V debug module's System Bus Access, driven over OpenOCD's      *)
(* telnet console with "riscv dmi_write" / "riscv dmi_read" commands.      *)
(*                                                                         *)
(* Python integers are unbounded; TLC's are 32 bits wide.  A Python int    *)
(* n >= 0 is therefore modelled by its little-endian sequence of 16-bit    *)
(* limbs without high zero limbs (0 is << >>, 0x80000000 is <<0, 32768>>). *)
(* Text (a Python str) is a sequence of one-character strings.             *)
(***************************************************************************)
EXTENDS Integers, Sequences, FiniteSets, TLC

VARIABLES
    pc,         \* the statement of load_binary_via_sba about to run
    sock,       \* the TCP session: "none", "open" or "closed"
    timeout,    \* the socket's timeout: "None" (blocking) or "0.1"
    closes,     \* how many times sock.close() has run
    exc,        \* the exception that ended the run, "none" while there is none
    binary,     \* the bytes of the file at binary_path, NoFile if unreadable
    base_addr,  \* the base_addr argument
    data,       \* the image read from the file, padded once read
    i,          \* the loop variable of the running loop
    expected,   \* the verification loop's expected word
    actual,     \* the verification loop's read-back value
    sbcs,       \* the status register value read at the end
    backlog,    \* reply chunks still buffered in the socket
    response,   \* the reply text dmi_read's parser is given
    trace,      \* everything sent, waited for and printed so far, in order
    rx,         \* the socket's receive buffer: reply chunks that have arrived
    wire,       \* reply chunks the bridge has sent that have not yet arrived
    peer,       \* the bridge's end of the connection: "up" or "closed"
    step,       \* the statement of dmi_write or dmi_read about to run, or "idle"
    serial,     \* how many commands have been sent
    ret,        \* the value the last dmi_write or dmi_read returned
    framed,     \* the running read's reply is the only one outstanding
    path        \* how the last dmi_write's receive ended: "reply" or "timeout"

\* the socket seen statement by statement, with the bridge's replies in flight
sockvars == <<rx, wire, peer, step, serial, ret, framed, path>>

vars == <<pc, sock, timeout, closes, exc, binary, base_addr, data, i,
          expected, actual, sbcs, backlog, response, trace, sockvars>>

----------------------------------------------------------------------------
(* Bounds of the model *)

\* the longest binary file, in bytes
MaxLen == 17
\* the most reply chunks left in the socket when the transfer loop ends
MaxBacklog == 2
\* the most lines of a reply text given to the parser
MaxLines == 3
\* the most reply chunks outstanding (sent by the bridge, not yet received)
MaxPending == 2

----------------------------------------------------------------------------
(* Python int arithmetic on limb sequences *)

Limb == 2^16

\* Python's None, and a missing file: values no int and no bytes object equals
None == <<-1>>
NoFile == <<-2>>

RECURSIVE Norm(_)
Norm(s) ==
    IF s = <<>> THEN s
    ELSE IF s[Len(s)] = 0 THEN Norm(SubSeq(s, 1, Len(s) - 1)) ELSE s

LimbAt(s, k) == IF k >= 1 /\ k <= Len(s) THEN s[k] ELSE 0

\* s + c for a small int c >= 0
RECURSIVE AddCarry(_, _)
AddCarry(s, c) ==
    IF c = 0 THEN s
    ELSE IF s = <<>> THEN <<c % Limb>> \o AddCarry(<<>>, c \div Limb)
    ELSE <<(s[1] + c) % Limb>> \o AddCarry(Tail(s), (s[1] + c) \div Limb)

Add(s, c) == Norm(AddCarry(s, c))

\* s & (2^k - 1)
AndLowBits(s, k) ==
    LET q == k \div 16
        r == k % 16
    IN  Norm([j \in 1..(q + 1) |->
                 IF j <= q THEN LimbAt(s, j) ELSE LimbAt(s, j) % (2^r)])

\* s >> k
ShiftRight(s, k) ==
    LET q == k \div 16
        r == k % 16
        n == IF Len(s) > q THEN Len(s) - q ELSE 0
    IN  Norm([j \in 1..n |->
                 (LimbAt(s, j + q) \div (2^r))
                 + (LimbAt(s, j + q + 1) % (2^r)) * (2^(16 - r))])

\* a mutant of from_bytes_little: the bytes taken most significant first
from_bytes_big(b) ==
    Norm([j \in 1..((Len(b) + 1) \div 2) |->
             (IF Len(b) - 2 * j + 1 >= 1 THEN 256 * b[Len(b) - 2 * j + 1] ELSE 0)
             + b[Len(b) - 2 * j + 2]])

\* int.from_bytes(b, byteorder='little')
from_bytes_little(b) ==
    Norm([j \in 1..((Len(b) + 1) \div 2) |->
             b[2 * j - 1] + (IF 2 * j <= Len(b) THEN 256 * b[2 * j] ELSE 0)])

----------------------------------------------------------------------------
(* Text *)

HexDigits ==
    {"0", "1", "2", "3", "4", "5", "6", "7", "8", "9",
     "a", "b", "c", "d", "e", "f", "A", "B", "C", "D", "E", "F"}

DigitValue(c) ==
    CASE c = "0" -> 0 [] c = "1" -> 1 [] c = "2" -> 2 [] c = "3" -> 3
      [] c = "4" -> 4 [] c = "5" -> 5 [] c = "6" -> 6 [] c = "7" -> 7
      [] c = "8" -> 8 [] c = "9" -> 9
      [] c \in {"a", "A"} -> 10 [] c \in {"b", "B"} -> 11
      [] c \in {"c", "C"} -> 12 [] c \in {"d", "D"} -> 13
      [] c \in {"e", "E"} -> 14 [] c \in {"f", "F"} -> 15

\* the characters str.strip() removes
Whitespace == {" ", "\t", "\n", "\r", "\f"}

\* s * 16 + d
RECURSIVE MulAdd16(_, _)
MulAdd16(s, d) ==
    IF s = <<>> THEN (IF d = 0 THEN <<>> ELSE <<d>>)
    ELSE <<(s[1] * 16 + d) % Limb>> \o MulAdd16(Tail(s), (s[1] * 16 + d) \div Limb)

\* int(digits, 16)
RECURSIVE IntHexFrom(_, _)
IntHexFrom(digits, acc) ==
    IF digits = <<>> THEN acc
    ELSE IntHexFrom(Tail(digits), Norm(MulAdd16(acc, DigitValue(Head(digits)))))

int16(digits) == IntHexFrom(digits, <<>>)

\* response.split('\n')
RECURSIVE SplitFrom(_, _)
SplitFrom(s, cur) ==
    IF s = <<>> THEN <<cur>>
    ELSE IF Head(s) = "\n" THEN <<cur>> \o SplitFrom(Tail(s), <<>>)
    ELSE SplitFrom(Tail(s), Append(cur, Head(s)))

split(s) == SplitFrom(s, <<>>)

\* line.strip()
RECURSIVE lstrip(_)
lstrip(s) ==
    IF s # <<>> /\ Head(s) \in Whitespace THEN lstrip(Tail(s)) ELSE s

RECURSIVE rstrip(_)
rstrip(s) ==
    IF s # <<>> /\ s[Len(s)] \in Whitespace
    THEN rstrip(SubSeq(s, 1, Len(s) - 1)) ELSE s

strip(s) == rstrip(lstrip(s))

\* token in line
Contains(line, token) ==
    \E k \in 1..(Len(line) - Len(token) + 1) :
        SubSeq(line, k, k + Len(token) - 1) = token

tok_dmi_read == <<"d", "m", "i", "_", "r", "e", "a", "d">>
tok_dmi_write == <<"d", "m", "i", "_", "w", "r", "i", "t", "e">>
prompt == <<">">>

\* re.match(r'^0x([0-9a-fA-F]+)$', line)
HexMatch(line) ==
    /\ Len(line) >= 3
    /\ line[1] = "0"
    /\ line[2] = "x"
    /\ \A k \in 3..Len(line) : line[k] \in HexDigits

\* match.group(1)
HexGroup(line) == SubSeq(line, 3, Len(line))

\* a mutant of ParseLines: the lines are not stripped
RECURSIVE ParseLines_nostrip(_, _)
ParseLines_nostrip(lines, k) ==
    IF k > Len(lines) THEN None
    ELSE LET line == lines[k]
         IN  IF Contains(line, tok_dmi_read) \/ Contains(line, tok_dmi_write)
             THEN ParseLines_nostrip(lines, k + 1)
             ELSE IF line = prompt THEN ParseLines_nostrip(lines, k + 1)
             ELSE IF HexMatch(line) THEN int16(HexGroup(line))
             ELSE ParseLines_nostrip(lines, k + 1)

\* dmi_read's loop over the reply's lines, from line k on
RECURSIVE ParseLines(_, _)
ParseLines(lines, k) ==
    IF k > Len(lines) THEN None
    ELSE LET line == strip(lines[k])
         IN  IF Contains(line, tok_dmi_read) \/ Contains(line, tok_dmi_write)
             THEN ParseLines(lines, k + 1)
             ELSE IF line = prompt THEN ParseLines(lines, k + 1)
             ELSE IF HexMatch(line) THEN int16(HexGroup(line))
             ELSE ParseLines(lines, k + 1)

\* the value dmi_read returns for a reply text
ParseResponse(text) == ParseLines(split(text), 1)

----------------------------------------------------------------------------
(* Program constants *)

\* DMI register addresses
SBCS == \h38
SBAddress0 == \h39
SBAddress1 == \h3A
SBData0 == \h3C

\* the value written to SBCS before the transfer, 0x00147000
SBCS_CONFIG == <<\h7000, \h0014>>

\* the default base_addr, 0x80000000
DEFAULT_BASE == <<\h0000, \h8000>>

\* the number of words verified
VERIFY_WORDS == 4

----------------------------------------------------------------------------
(* Inputs: the binary file and the base address *)

PatternA ==
    <<\hAA, \hBB, \hCC, \hDD, \hEE, \hFF, \h01, \h02, \h03, \h04,
      \h05, \h06, \h07, \h08, \h09, \h0A, \h0B, \h0C, \h0D, \h0E>>

PatternB ==
    <<\h00, \h00, \h00, \h80, \hFF, \hFF, \hFF, \hFF, \h00, \h01,
      \h00, \h00, \h7F, \h00, \h00, \h00, \h10, \h00, \h00, \h20>>

\* the first n bytes of a pattern, repeated when n exceeds its length
Cut(p, n) == [k \in 1..n |-> p[((k - 1) % Len(p)) + 1]]

Files == {Cut(p, n) : p \in {PatternA, PatternB}, n \in 0..MaxLen}

\* 0x80000000; 0xFFFFFFF8, whose low half overflows at the third word;
\* 0xFFFFFFFFFFFFFFFC, the last word of a 64-bit address space
BaseAddrs ==
    {DEFAULT_BASE, <<\hFFF8, \hFFFF>>, <<\hFFFC, \hFFFF, \hFFFF, \hFFFF>>}

----------------------------------------------------------------------------
(* The bridge's reply texts *)

HexChar(n) ==
    <<"0", "1", "2", "3", "4", "5", "6", "7",
      "8", "9", "a", "b", "c", "d", "e", "f">>[n + 1]

LimbHex(l) ==
    <<HexChar(l \div 4096), HexChar((l \div 256) % 16),
      HexChar((l \div 16) % 16), HexChar(l % 16)>>

\* OpenOCD's rendering of a value: 0x and at least eight hex digits
RECURSIVE LimbsHex(_, _)
LimbsHex(v, n) ==
    IF n = 0 THEN <<>> ELSE LimbHex(LimbAt(v, n)) \o LimbsHex(v, n - 1)

HexText(v) == <<"0", "x">> \o LimbsHex(v, IF Len(v) > 2 THEN Len(v) ELSE 2)

EchoRead ==
    <<"r", "i", "s", "c", "v", " ", "d", "m", "i", "_", "r", "e", "a", "d",
      " ", "0", "x", "3", "c">>

CRLF == <<"\r", "\n">>

\* the command echo, the value and the next prompt
ValueReply(v) == EchoRead \o CRLF \o HexText(v) \o CRLF \o <<">", " ">>

\* the command echo and the next prompt only
EmptyReply == EchoRead \o CRLF \o <<">", " ">>

\* what the bridge may answer to the read-back of a word
VerifyReplies(word) == {ValueReply(word), ValueReply(Add(word, 1)), EmptyReply}

\* SBCS read-backs: 0x20048807 (bits 15 and 11 set, error field 0),
\* 0x00004000 (error field 4), 0x20041407 (error field 1)
StatusValues == {<<\h8807, \h2004>>, <<\h4000>>, <<\h1407, \h2004>>}

StatusReplies == {ValueReply(v) : v \in StatusValues} \cup {EmptyReply}

----------------------------------------------------------------------------
(* Events of the trace *)

WriteEv(addr, value) == [op |-> "dmi_write", addr |-> addr, data |-> value]
ReadEv(addr) == [op |-> "dmi_read", addr |-> addr]
SleepEv(ms) == [op |-> "sleep", ms |-> ms]
RecvEv == [op |-> "recv"]
PrintEv(msg) == [op |-> "print", msg |-> msg]

\* dmi_write(sock, addr, data): the command is sent and a reply, if one comes
\* within 0.1 s, is received and discarded; the socket is blocking again after
dmi_write(addr, value) ==
    /\ trace' = Append(trace, WriteEv(addr, value))
    /\ timeout' = "None"

\* a mutant of dmi_read: the reply is received without the settle wait
dmi_read_nosettle(addr, r) ==
    /\ trace' = trace \o <<ReadEv(addr), RecvEv>>
    /\ response' = r

\* dmi_read(sock, addr) when the bridge answers with text r: the command is
\* sent, 0.1 s pass, the reply is received and parsed
dmi_read(addr, r) ==
    /\ trace' = trace \o <<ReadEv(addr), SleepEv(100), RecvEv>>
    /\ response' = r

Goto(next) == pc' = next /\ exc' = exc

\* an exception leaves load_binary_via_sba; nothing catches it
Raise(e) == pc' = "aborted" /\ exc' = e

----------------------------------------------------------------------------
(* load_binary_via_sba *)

\* a local variable not yet assigned
Unset == <<-3>>

\* data[a:b]
Slice(d, a, b) ==
    SubSeq(d, (IF a < Len(d) THEN a ELSE Len(d)) + 1, IF b < Len(d) THEN b ELSE Len(d))

\* a mutant of Pad: padding is added to an aligned image too
Pad_always(d) == d \o [k \in 1..(4 - (Len(d) % 4)) |-> 0]

\* the image padded to a 4-byte boundary
Pad(d) ==
    IF Len(d) % 4 # 0 THEN d \o [k \in 1..(4 - (Len(d) % 4)) |-> 0] ELSE d

\* the 32-bit word at byte offset k of the image
WordAt(d, k) == from_bytes_little(Slice(d, k, k + 4))

\* addr & 0xFFFFFFFF and (addr >> 32) & 0xFFFFFFFF
AddrLow(addr) == AndLowBits(addr, 32)
AddrHigh(addr) == AndLowBits(ShiftRight(addr, 32), 32)

\* a mutant of WriteAddr: the byte offset taken for a word index
WriteAddr_wordindex(base, k) == Add(base, k \div 4)

\* the transfer loop's addr for byte offset k, the verification loop's for word k
WriteAddr(base, k) == Add(base, k)
VerifyAddr(base, k) == Add(base, k * 4)

\* a mutant of SbError: a four-bit mask, 0xF
SbError_wide(v) == AndLowBits(ShiftRight(v, 12), 4)

\* (sbcs >> 12) & 0x7
SbError(v) == AndLowBits(ShiftRight(v, 12), 3)

Init ==
    /\ pc = "connect"
    /\ sock = "none"
    /\ timeout = "None"
    /\ closes = 0
    /\ exc = "none"
    /\ binary \in Files \cup {NoFile}
    /\ base_addr \in BaseAddrs
    /\ data = Unset
    /\ i = 0
    /\ expected = Unset
    /\ actual = Unset
    /\ sbcs = Unset
    /\ backlog = 0
    /\ response = <<>>
    /\ trace = <<>>
    /\ rx = <<>>
    /\ wire = <<>>
    /\ peer = "up"
    /\ step = "idle"
    /\ serial = 0
    /\ ret = Unset
    /\ framed = "no"
    /\ path = "none"

\* a mutant of Connect: the welcome banner is not read
Connect_nobanner ==
    /\ pc = "connect"
    /\ \/ /\ sock' = "open"
          /\ trace' = trace \o <<[op |-> "connect"], PrintEv("Loading")>>
          /\ Goto("configure")
       \/ /\ Raise("ConnectionRefusedError")
          /\ UNCHANGED <<sock, trace>>
    /\ UNCHANGED <<timeout, closes, binary, base_addr, data, i, expected,
                   actual, sbcs, backlog, response>>
    /\ UNCHANGED sockvars

\* socket(), connect(), the welcome banner, the "Loading" notice
Connect ==
    /\ pc = "connect"
    /\ \/ /\ sock' = "open"
          /\ trace' = trace \o <<[op |-> "connect"], RecvEv, PrintEv("Loading")>>
          /\ Goto("configure")
       \/ /\ Raise("ConnectionRefusedError")
          /\ UNCHANGED <<sock, trace>>
       \/ /\ sock' = "open"
          /\ trace' = Append(trace, [op |-> "connect"])
          /\ Raise("OSError")
    /\ UNCHANGED <<timeout, closes, binary, base_addr, data, i, expected,
                   actual, sbcs, backlog, response>>
    /\ UNCHANGED sockvars

\* a step that prints `notice` (unless it is "") and then writes a DMI
\* register, or fails in sendall
WriteStep(notice, addr, value, next) ==
    /\ sock = "open"
    /\ \/ /\ trace' = (IF notice = "" THEN trace ELSE Append(trace, PrintEv(notice)))
                      \o <<WriteEv(addr, value)>>
          /\ timeout' = "None"
          /\ Goto(next)
       \/ /\ trace' = (IF notice = "" THEN trace ELSE Append(trace, PrintEv(notice)))
          /\ Raise("OSError")
          /\ UNCHANGED timeout

Configure ==
    /\ pc = "configure"
    /\ WriteStep("Configuring SBA", SBCS, SBCS_CONFIG, "set_base_lo")
    /\ UNCHANGED <<sock, closes, binary, base_addr, data, i, expected, actual,
                   sbcs, backlog, response>>
    /\ UNCHANGED sockvars

SetBaseLo ==
    /\ pc = "set_base_lo"
    /\ WriteStep("Setting address", SBAddress0, AddrLow(base_addr), "set_base_hi")
    /\ UNCHANGED <<sock, closes, binary, base_addr, data, i, expected, actual,
                   sbcs, backlog, response>>
    /\ UNCHANGED sockvars

SetBaseHi ==
    /\ pc = "set_base_hi"
    /\ WriteStep("", SBAddress1, AddrHigh(base_addr), "read_binary")
    /\ UNCHANGED <<sock, closes, binary, base_addr, data, i, expected, actual,
                   sbcs, backlog, response>>
    /\ UNCHANGED sockvars

\* open(binary_path, 'rb'), f.read(), the padding, the "Writing" notice
ReadBinary ==
    /\ pc = "read_binary"
    /\ \/ /\ binary # NoFile
          /\ data' = Pad(binary)
          /\ i' = 0
          /\ trace' = Append(trace, PrintEv("Writing"))
          /\ Goto("for_write")
       \/ /\ binary = NoFile
          /\ Raise("FileNotFoundError")
          /\ UNCHANGED <<data, i, trace>>
    /\ UNCHANGED <<sock, timeout, closes, binary, base_addr, expected, actual,
                   sbcs, backlog, response>>
    /\ UNCHANGED sockvars

WriteAddrLo ==
    /\ pc = "for_write"
    /\ i < Len(data)
    /\ WriteStep("", SBAddress0, AddrLow(WriteAddr(base_addr, i)), "write_addr_hi")
    /\ UNCHANGED <<sock, closes, binary, base_addr, data, i, expected, actual,
                   sbcs, backlog, response>>
    /\ UNCHANGED sockvars

\* a mutant of WriteAddrHi: the high half is not written
WriteAddrHi_skip ==
    /\ pc = "write_addr_hi"
    /\ Goto("write_data")
    /\ UNCHANGED <<sock, timeout, closes, binary, base_addr, data, i, expected,
                   actual, sbcs, backlog, response, trace>>
    /\ UNCHANGED sockvars

WriteAddrHi ==
    /\ pc = "write_addr_hi"
    /\ WriteStep("", SBAddress1, AddrHigh(WriteAddr(base_addr, i)), "write_data")
    /\ UNCHANGED <<sock, closes, binary, base_addr, data, i, expected, actual,
                   sbcs, backlog, response>>
    /\ UNCHANGED sockvars

\* the data write, the progress notice, the loop's next offset
WriteData ==
    /\ pc = "write_data"
    /\ sock = "open"
    /\ \/ /\ trace' = Append(trace, WriteEv(SBData0, WordAt(data, i)))
                      \o (IF (i \div 4) % 100 = 0 THEN <<PrintEv("Progress")>> ELSE <<>>)
          /\ timeout' = "None"
          /\ i' = i + 4
          /\ Goto("for_write")
       \/ /\ Raise("OSError")
          /\ UNCHANGED <<trace, timeout, i>>
    /\ UNCHANGED <<sock, closes, binary, base_addr, data, expected, actual,
                   sbcs, backlog, response>>
    /\ UNCHANGED sockvars

\* the loop is over: "Done writing!", "Clearing socket buffer", settimeout(0.1);
\* the bridge has left some replies in the socket
DoneWriting ==
    /\ pc = "for_write"
    /\ i >= Len(data)
    /\ trace' = trace \o <<PrintEv("Done writing!"), PrintEv("Clearing socket buffer")>>
    /\ timeout' = "0.1"
    /\ backlog' \in 0..MaxBacklog
    /\ Goto("clear")
    /\ UNCHANGED <<sock, closes, binary, base_addr, data, i, expected, actual,
                   sbcs, response>>
    /\ UNCHANGED sockvars

\* sock.recv(4096) returns buffered data: the loop goes round
ClearRecv ==
    /\ pc = "clear"
    /\ backlog > 0
    /\ backlog' = backlog - 1
    /\ UNCHANGED <<pc, exc, sock, timeout, closes, binary, base_addr, data, i,
                   expected, actual, sbcs, response, trace>>
    /\ UNCHANGED sockvars

\* sock.recv(4096) times out: settimeout(None), "Verifying first 4 words"
ClearTimeout ==
    /\ pc = "clear"
    /\ backlog = 0
    /\ timeout' = "None"
    /\ i' = 0
    /\ trace' = Append(trace, PrintEv("Verifying"))
    /\ Goto("for_verify")
    /\ UNCHANGED <<sock, closes, binary, base_addr, data, expected, actual,
                   sbcs, backlog, response>>
    /\ UNCHANGED sockvars

VerifyAddrLo ==
    /\ pc = "for_verify"
    /\ i < VERIFY_WORDS
    /\ WriteStep("", SBAddress0, AddrLow(VerifyAddr(base_addr, i)), "verify_addr_hi")
    /\ UNCHANGED <<sock, closes, binary, base_addr, data, i, expected, actual,
                   sbcs, backlog, response>>
    /\ UNCHANGED sockvars

VerifyAddrHi ==
    /\ pc = "verify_addr_hi"
    /\ WriteStep("", SBAddress1, AddrHigh(VerifyAddr(base_addr, i)), "verify_settle")
    /\ UNCHANGED <<sock, closes, binary, base_addr, data, i, expected, actual,
                   sbcs, backlog, response>>
    /\ UNCHANGED sockvars

\* time.sleep(0.2)
VerifySettle ==
    /\ pc = "verify_settle"
    /\ trace' = Append(trace, SleepEv(200))
    /\ Goto("verify_read")
    /\ UNCHANGED <<sock, timeout, closes, binary, base_addr, data, i, expected,
                   actual, sbcs, backlog, response>>
    /\ UNCHANGED sockvars

\* expected = ..., actual = dmi_read(sock, 0x3C)
VerifyRead ==
    /\ pc = "verify_read"
    /\ sock = "open"
    /\ expected' = WordAt(data, i * 4)
    /\ \/ \E r \in VerifyReplies(WordAt(data, i * 4)) :
              /\ dmi_read(SBData0, r)
              /\ actual' = ParseResponse(r)
              /\ Goto("verify_report")
       \/ /\ Raise("OSError")
          /\ UNCHANGED <<trace, response, actual>>
    /\ UNCHANGED <<sock, timeout, closes, binary, base_addr, data, i, sbcs, backlog>>
    /\ UNCHANGED sockvars

\* the status mark of a compared word
Mark(act, exp) == IF act = exp THEN "pass" ELSE "fail"

\* a mutant of VerifyReport: the loop is left at the first failed word
VerifyReport_break ==
    /\ pc = "verify_report"
    /\ trace' = Append(trace,
          [op |-> "print", msg |-> "verify", idx |-> i,
           at |-> VerifyAddr(base_addr, i),
           expected |-> expected, got |-> actual,
           mark |-> IF actual = None THEN "fail" ELSE Mark(actual, expected)])
    /\ i' = IF actual = expected THEN i + 1 ELSE VERIFY_WORDS
    /\ Goto("for_verify")
    /\ UNCHANGED <<sock, timeout, closes, binary, base_addr, data, expected,
                   actual, sbcs, backlog, response>>
    /\ UNCHANGED sockvars

\* the word's report line, the loop's next index
VerifyReport ==
    /\ pc = "verify_report"
    /\ trace' = Append(trace,
          [op |-> "print", msg |-> "verify", idx |-> i,
           at |-> VerifyAddr(base_addr, i),
           expected |-> expected, got |-> actual,
           mark |-> IF actual = None THEN "fail" ELSE Mark(actual, expected)])
    /\ i' = i + 1
    /\ Goto("for_verify")
    /\ UNCHANGED <<sock, timeout, closes, binary, base_addr, data, expected,
                   actual, sbcs, backlog, response>>
    /\ UNCHANGED sockvars

\* sbcs = dmi_read(sock, 0x38)
StatusRead ==
    /\ pc = "for_verify"
    /\ i >= VERIFY_WORDS
    /\ sock = "open"
    /\ \/ \E r \in StatusReplies :
              /\ dmi_read(SBCS, r)
              /\ sbcs' = ParseResponse(r)
              /\ Goto("status_report")
       \/ /\ Raise("OSError")
          /\ UNCHANGED <<trace, response, sbcs>>
    /\ UNCHANGED <<sock, timeout, closes, binary, base_addr, data, i, expected,
                   actual, backlog>>
    /\ UNCHANGED sockvars

\* a mutant of StatusReport: a bus error ends the run
StatusReport_failfast ==
    /\ pc = "status_report"
    /\ \/ /\ sbcs # None
          /\ SbError(sbcs) = <<>>
          /\ trace' = Append(trace, PrintEv("No SBA errors!"))
          /\ Goto("close")
       \/ /\ sbcs # None
          /\ SbError(sbcs) # <<>>
          /\ trace' = Append(trace, PrintEv("Warning: SBCS reports sberror"))
          /\ Raise("SystemExit")
       \/ /\ sbcs = None
          /\ Raise("TypeError")
          /\ UNCHANGED trace
    /\ UNCHANGED <<sock, timeout, closes, binary, base_addr, data, i, expected,
                   actual, sbcs, backlog, response>>
    /\ UNCHANGED sockvars

\* sberror = (sbcs >> 12) & 0x7 and its report; None >> 12 is a TypeError
StatusReport ==
    /\ pc = "status_report"
    /\ \/ /\ sbcs # None
          /\ trace' = Append(trace,
                IF SbError(sbcs) # <<>> THEN PrintEv("Warning: SBCS reports sberror")
                ELSE PrintEv("No SBA errors!"))
          /\ Goto("close")
       \/ /\ sbcs = None
          /\ Raise("TypeError")
          /\ UNCHANGED trace
    /\ UNCHANGED <<sock, timeout, closes, binary, base_addr, data, i, expected,
                   actual, sbcs, backlog, response>>
    /\ UNCHANGED sockvars

\* sock.close() and the closing notices
Close ==
    /\ pc = "close"
    /\ sock' = "closed"
    /\ closes' = closes + 1
    /\ trace' = trace \o <<[op |-> "close"], PrintEv("Binary loaded successfully!"),
                           PrintEv("Now run in OpenOCD telnet: reset run")>>
    /\ Goto("done")
    /\ UNCHANGED <<timeout, binary, base_addr, data, i, expected, actual, sbcs,
                   backlog, response>>
    /\ UNCHANGED sockvars

Next ==
    \/ Connect \/ Configure \/ SetBaseLo \/ SetBaseHi \/ ReadBinary
    \/ WriteAddrLo \/ WriteAddrHi \/ WriteData \/ DoneWriting
    \/ ClearRecv \/ ClearTimeout
    \/ VerifyAddrLo \/ VerifyAddrHi \/ VerifySettle \/ VerifyRead \/ VerifyReport
    \/ StatusRead \/ StatusReport \/ Close

Spec == Init /\ [][Next]_vars

----------------------------------------------------------------------------
(* dmi_read's parser on its own: reply texts of up to MaxLines lines *)

LinePool ==
    {EchoRead \o <<"\r">>,
     <<"d", "m", "i", "_", "w", "r", "i", "t", "e", " ", "0", "x", "2">>,
     <<">", " ">>,
     <<"0", "x", "1", "f", "\r">>,
     <<" ", "0", "x", "A", "b", "1", "2", "c", "d", "3", "4", " ">>,
     <<"0", "x", "0", "0", "0", "0", "0", "0", "0", "0">>,
     <<>>,
     <<"0", "x">>,
     <<"0", "x", "1", "g">>,
     <<"0", "X", "1", "f">>,
     <<">", " ", "0", "x", "5">>,
     <<"0", "x", "1", "2", " ", "0", "x", "3", "4">>}

\* lines joined with '\n'
RECURSIVE Join(_)
Join(lines) ==
    IF Len(lines) = 1 THEN lines[1]
    ELSE lines[1] \o <<"\n">> \o Join(Tail(lines))

ReplyTexts ==
    {Join(ls) : ls \in UNION {[1..n -> LinePool] : n \in 1..MaxLines}}

InitParse ==
    /\ pc = "parse"
    /\ sock = "open"
    /\ timeout = "None"
    /\ closes = 0
    /\ exc = "none"
    /\ binary = <<>>
    /\ base_addr = DEFAULT_BASE
    /\ data = Unset
    /\ i = 0
    /\ expected = Unset
    /\ actual = Unset
    /\ sbcs = Unset
    /\ backlog = 0
    /\ response \in ReplyTexts
    /\ trace = <<>>
    /\ rx = <<>>
    /\ wire = <<>>
    /\ peer = "up"
    /\ step = "idle"
    /\ serial = 0
    /\ ret = Unset
    /\ framed = "no"
    /\ path = "none"

\* lines 34-52 of dmi_read applied to the reply text
ParseReply ==
    /\ pc = "parse"
    /\ actual' = ParseResponse(response)
    /\ pc' = "parsed"
    /\ UNCHANGED <<sock, timeout, closes, exc, binary, base_addr, data, i,
                   expected, sbcs, backlog, response, trace>>
    /\ UNCHANGED sockvars

NextParse == ParseReply

SpecParse == InitParse /\ [][NextParse]_vars

----------------------------------------------------------------------------
(* The socket statement by statement, from the end of the transfer loop on. *)
(* The bridge answers a command with a reply that arrives at any later     *)
(* time, whole or in two chunks, or not at all, and may close the          *)
(* connection.  A chunk is [cmd |-> the command's serial, part |-> its     *)
(* kind]; the reply to read command n carries the value n.                 *)

ReplyValue(n) == <<n>>

EchoWrite ==
    <<"r", "i", "s", "c", "v", " ", "d", "m", "i", "_", "w", "r", "i", "t", "e">>

\* the text of a chunk: "ack" answers a write; "full" is a read's whole reply,
\* "echo" and "value" its two parts when split, "empty" a reply with no value
ChunkText(c) ==
    CASE c.part = "ack" -> EchoWrite \o CRLF \o <<">", " ">>
      [] c.part = "full" -> ValueReply(ReplyValue(c.cmd))
      [] c.part = "echo" -> EchoRead \o CRLF
      [] c.part = "value" -> HexText(ReplyValue(c.cmd)) \o CRLF \o <<">", " ">>
      [] c.part = "empty" -> EmptyReply

\* a mutant of RecvText: only the first buffered chunk is taken
RecvText_first(buf) == IF buf = <<>> THEN <<>> ELSE ChunkText(buf[1])

\* sock.recv(4096).decode(): everything buffered (b'' once the peer has closed)
RECURSIVE RecvText(_)
RecvText(buf) ==
    IF buf = <<>> THEN <<>> ELSE ChunkText(Head(buf)) \o RecvText(Tail(buf))

Chunk(n, p) == [cmd |-> n, part |-> p]

\* replies to the transfer loop's writes still outstanding when it ends
Stale(n) == [k \in 1..n |-> Chunk(0, "ack")]

\* the bridge has room to answer with n more chunks
Room(n) == Len(wire) + Len(rx) + n <= MaxPending

\* the run is between the end of the transfer loop and the end of the run
UnderWay == pc \notin {"done", "aborted"}

InitSock ==
    /\ pc = "clear"
    /\ sock = "open"
    /\ timeout = "0.1"
    /\ closes = 0
    /\ exc = "none"
    /\ binary = <<\hAA, \hBB, \hCC, \hDD, \hEE, \hFF>>
    /\ base_addr = DEFAULT_BASE
    /\ data = Pad(binary)
    /\ i = 8
    /\ expected = Unset
    /\ actual = Unset
    /\ sbcs = Unset
    /\ backlog = 0
    /\ response = <<>>
    /\ trace = <<>>
    /\ \E n \in 0..MaxBacklog : \E a \in 0..n :
           /\ rx = Stale(a)
           /\ wire = Stale(n - a)
    /\ peer = "up"
    /\ step = "idle"
    /\ serial = 0
    /\ ret = Unset
    /\ framed = "no"
    /\ path = "none"

\* a reply chunk arrives
Deliver ==
    /\ UnderWay
    /\ peer = "up"
    /\ wire # <<>>
    /\ rx' = Append(rx, Head(wire))
    /\ wire' = Tail(wire)
    /\ UNCHANGED <<pc, sock, timeout, closes, exc, binary, base_addr, data, i,
                   expected, actual, sbcs, backlog, response, trace,
                   peer, step, serial, ret, framed, path>>

\* the bridge closes the connection, after all it has sent
PeerClose ==
    /\ UnderWay
    /\ peer = "up"
    /\ wire = <<>>
    /\ peer' = "closed"
    /\ UNCHANGED <<pc, sock, timeout, closes, exc, binary, base_addr, data, i,
                   expected, actual, sbcs, backlog, response, trace,
                   rx, wire, step, serial, ret, framed, path>>

\* while True: the next sock.recv(4096) is called
SockClearLoop ==
    /\ pc = "clear"
    /\ pc' = "clear_recv"
    /\ UNCHANGED <<sock, timeout, closes, exc, binary, base_addr, data, i,
                   expected, actual, sbcs, backlog, response, trace, sockvars>>

\* sock.recv(4096) returns what is buffered
SockClearData ==
    /\ pc = "clear_recv"
    /\ rx # <<>>
    /\ rx' = <<>>
    /\ pc' = "clear"
    /\ UNCHANGED <<sock, timeout, closes, exc, binary, base_addr, data, i,
                   expected, actual, sbcs, backlog, response, trace,
                   wire, peer, step, serial, ret, framed, path>>

\* the peer has closed: sock.recv(4096) returns b'' at once, without a timeout
SockClearEOF ==
    /\ pc = "clear_recv"
    /\ rx = <<>>
    /\ peer = "closed"
    /\ pc' = "clear"
    /\ UNCHANGED <<sock, timeout, closes, exc, binary, base_addr, data, i,
                   expected, actual, sbcs, backlog, response, trace, sockvars>>

\* nothing arrives within 0.1 s: socket.timeout, settimeout(None), "Verifying"
SockClearTimeout ==
    /\ pc = "clear_recv"
    /\ rx = <<>>
    /\ peer = "up"
    /\ timeout' = "None"
    /\ i' = 0
    /\ pc' = "for_verify"
    /\ UNCHANGED <<sock, closes, exc, binary, base_addr, data,
                   expected, actual, sbcs, backlog, response, trace, sockvars>>

\* the statements from which dmi_write and dmi_read are called
AtWriteCall == (pc = "for_verify" /\ i < VERIFY_WORDS) \/ pc = "verify_addr_hi"
AtReadCall == (pc = "for_verify" /\ i >= VERIFY_WORDS) \/ pc = "verify_read"

\* dmi_write: sock.sendall(cmd.encode()); the bridge answers or does not
WriteSend ==
    /\ AtWriteCall
    /\ step = "idle"
    /\ \/ /\ serial' = serial + 1
          /\ step' = "w_settimeout"
          /\ \/ /\ peer = "up" /\ Room(1)
                /\ wire' = Append(wire, Chunk(serial + 1, "ack"))
             \/ wire' = wire
          /\ UNCHANGED <<pc, exc>>
       \/ /\ peer = "closed"
          /\ Raise("OSError")
          /\ UNCHANGED <<serial, step, wire>>
    /\ UNCHANGED <<sock, timeout, closes, binary, base_addr, data, i,
                   expected, actual, sbcs, backlog, response, trace,
                   rx, peer, ret, framed, path>>

\* dmi_write: sock.settimeout(0.1)
WriteArm ==
    /\ step = "w_settimeout"
    /\ timeout' = "0.1"
    /\ step' = "w_recv"
    /\ UNCHANGED <<pc, sock, closes, exc, binary, base_addr, data, i,
                   expected, actual, sbcs, backlog, response, trace,
                   rx, wire, peer, serial, ret, framed, path>>

\* dmi_write: sock.recv(4096) returns (data, or b'' from a closed peer);
\* sock.settimeout(None)
WriteRecvReply ==
    /\ step = "w_recv"
    /\ rx # <<>> \/ peer = "closed"
    /\ rx' = <<>>
    /\ timeout' = "None"
    /\ path' = "reply"
    /\ step' = "w_return"
    /\ UNCHANGED <<pc, sock, closes, exc, binary, base_addr, data, i,
                   expected, actual, sbcs, backlog, response, trace,
                   wire, peer, serial, ret, framed>>

\* a mutant of WriteRecvTimeout: the socket is left with its timeout
WriteRecvTimeout_norestore ==
    /\ step = "w_recv"
    /\ rx = <<>> /\ peer = "up"
    /\ path' = "timeout"
    /\ step' = "w_return"
    /\ UNCHANGED <<pc, sock, timeout, closes, exc, binary, base_addr, data, i,
                   expected, actual, sbcs, backlog, response, trace,
                   rx, wire, peer, serial, ret, framed>>

\* dmi_write: sock.recv(4096) raises socket.timeout; sock.settimeout(None)
WriteRecvTimeout ==
    /\ step = "w_recv"
    /\ rx = <<>> /\ peer = "up"
    /\ timeout' = "None"
    /\ path' = "timeout"
    /\ step' = "w_return"
    /\ UNCHANGED <<pc, sock, closes, exc, binary, base_addr, data, i,
                   expected, actual, sbcs, backlog, response, trace,
                   rx, wire, peer, serial, ret, framed>>

\* dmi_write: return None, to the statement after the call
WriteReturn ==
    /\ step = "w_return"
    /\ ret' = None
    /\ step' = "idle"
    /\ pc' = IF pc = "for_verify" THEN "verify_addr_hi" ELSE "verify_settle"
    /\ UNCHANGED <<sock, timeout, closes, exc, binary, base_addr, data, i,
                   expected, actual, sbcs, backlog, response, trace,
                   rx, wire, peer, serial, framed, path>>

\* time.sleep(0.2)
SockVerifySettle ==
    /\ pc = "verify_settle"
    /\ pc' = "verify_read"
    /\ UNCHANGED <<sock, timeout, closes, exc, binary, base_addr, data, i,
                   expected, actual, sbcs, backlog, response, trace, sockvars>>

\* dmi_read: sock.sendall(cmd.encode()); the bridge answers with the whole
\* reply, with the reply in two chunks, with a reply without a value, or not
ReadSend ==
    /\ AtReadCall
    /\ step = "idle"
    /\ \/ /\ serial' = serial + 1
          /\ step' = "r_sleep"
          /\ framed' = IF rx = <<>> /\ wire = <<>> THEN "clean" ELSE "no"
          /\ \/ /\ peer = "up" /\ Room(1)
                /\ \E p \in {"full", "empty"} :
                       wire' = Append(wire, Chunk(serial + 1, p))
             \/ /\ peer = "up" /\ Room(2)
                /\ wire' = wire \o <<Chunk(serial + 1, "echo"),
                                     Chunk(serial + 1, "value")>>
             \/ wire' = wire
          /\ UNCHANGED <<pc, exc>>
       \/ /\ peer = "closed"
          /\ Raise("OSError")
          /\ UNCHANGED <<serial, step, wire, framed>>
    /\ UNCHANGED <<sock, timeout, closes, binary, base_addr, data, i,
                   expected, actual, sbcs, backlog, response, trace,
                   rx, peer, ret, path>>

\* dmi_read: time.sleep(0.1)
ReadSleep ==
    /\ step = "r_sleep"
    /\ step' = "r_recv"
    /\ UNCHANGED <<pc, sock, timeout, closes, exc, binary, base_addr, data, i,
                   expected, actual, sbcs, backlog, response, trace,
                   rx, wire, peer, serial, ret, framed, path>>

\* the buffer holds the whole reply to command n and nothing else
OnlyReplyTo(buf, n) ==
    \/ buf = <<Chunk(n, "full")>>
    \/ buf = <<Chunk(n, "empty")>>
    \/ buf = <<Chunk(n, "echo"), Chunk(n, "value")>>

\* dmi_read: sock.recv(4096) blocks until there is data or the peer has
\* closed, and returns everything buffered
ReadRecv ==
    /\ step = "r_recv"
    /\ rx # <<>> \/ peer = "closed"
    /\ response' = RecvText(rx)
    /\ rx' = <<>>
    /\ framed' = IF framed = "clean" /\ OnlyReplyTo(rx, serial)
                 THEN (IF rx[1].part = "empty" THEN "empty" ELSE "value")
                 ELSE "no"
    /\ step' = "r_parse"
    /\ UNCHANGED <<pc, sock, timeout, closes, exc, binary, base_addr, data, i,
                   expected, actual, sbcs, backlog, trace,
                   wire, peer, serial, ret, path>>

\* dmi_read: the text is parsed and the value, or None, is what it returns
ReadParse ==
    /\ step = "r_parse"
    /\ ret' = ParseResponse(response)
    /\ step' = "r_return"
    /\ UNCHANGED <<pc, sock, timeout, closes, exc, binary, base_addr, data, i,
                   expected, actual, sbcs, backlog, response, trace,
                   rx, wire, peer, serial, framed, path>>

\* actual = dmi_read(sock, 0x3C), sbcs = dmi_read(sock, 0x38)
ReadReturn ==
    /\ step = "r_return"
    /\ step' = "idle"
    /\ \/ /\ pc = "verify_read"
          /\ actual' = ret
          /\ pc' = "verify_report"
          /\ UNCHANGED sbcs
       \/ /\ pc = "for_verify"
          /\ sbcs' = ret
          /\ pc' = "status_report"
          /\ UNCHANGED actual
    /\ UNCHANGED <<sock, timeout, closes, exc, binary, base_addr, data, i,
                   expected, backlog, response, trace,
                   rx, wire, peer, serial, ret, framed, path>>

\* the word's report line, the loop's next index
SockVerifyReport ==
    /\ pc = "verify_report"
    /\ i' = i + 1
    /\ pc' = "for_verify"
    /\ UNCHANGED <<sock, timeout, closes, exc, binary, base_addr, data,
                   expected, actual, sbcs, backlog, response, trace, sockvars>>

\* sberror = (sbcs >> 12) & 0x7 and its report
SockStatusReport ==
    /\ pc = "status_report"
    /\ \/ sbcs # None /\ Goto("close")
       \/ sbcs = None /\ Raise("TypeError")
    /\ UNCHANGED <<sock, timeout, closes, binary, base_addr, data, i,
                   expected, actual, sbcs, backlog, response, trace, sockvars>>

\* sock.close()
SockClose ==
    /\ pc = "close"
    /\ sock' = "closed"
    /\ closes' = closes + 1
    /\ pc' = "done"
    /\ UNCHANGED <<timeout, exc, binary, base_addr, data, i,
                   expected, actual, sbcs, backlog, response, trace, sockvars>>

\* the program's steps on the socket and the clock, and the statements
\* between them
ProgramSock ==
    \/ SockClearLoop \/ SockClearData \/ SockClearEOF \/ SockClearTimeout
    \/ WriteSend \/ WriteArm \/ WriteRecvReply \/ WriteRecvTimeout \/ WriteReturn
    \/ SockVerifySettle \/ ReadSend \/ ReadSleep \/ ReadRecv \/ ReadReturn
    \/ SockVerifyReport \/ SockStatusReport \/ SockClose

NextSock ==
    \/ SockClearLoop \/ SockClearData \/ SockClearEOF \/ SockClearTimeout
    \/ WriteSend \/ WriteArm \/ WriteRecvReply \/ WriteRecvTimeout \/ WriteReturn
    \/ SockVerifySettle \/ ReadSend \/ ReadSleep \/ ReadRecv \/ ReadParse \/ ReadReturn
    \/ SockVerifyReport \/ SockStatusReport \/ SockClose
    \/ Deliver \/ PeerClose

\* the process runs: a send, a sleep, a receive that has data, end of stream or
\* a timeout to return with, and a statement between them, is executed once it
\* can be.  Nothing is assumed of the bridge, and nothing of how long the
\* parse of a reply takes.
SpecSock == InitSock /\ [][NextSock]_vars /\ WF_vars(ProgramSock)

----------------------------------------------------------------------------
(* Reading the trace *)

IsWrite(e) == e.op = "dmi_write"
IsRead(e) == e.op = "dmi_read"
IsPrint(e, msg) == e.op = "print" /\ e.msg = msg
IsVerifyLine(e) == IsPrint(e, "verify")
IsDataWrite(e) == e.op = "dmi_write" /\ e.addr = SBData0
IsStatusRead(e) == e.op = "dmi_read" /\ e.addr = SBCS
IsConfigWrite(e) == e.op = "dmi_write" /\ e.addr = SBCS

Printed(msg) == \E k \in 1..Len(trace) : IsPrint(trace[k], msg)

\* the run is over, with or without an exception
RunEnded == pc \in {"done", "aborted"}

\* bit k (0..15) of the lowest limb of v
Bit(v, k) == (LimbAt(v, 1) \div (2^k)) % 2

----------------------------------------------------------------------------
(* C1: in every run that opened the TCP session, the session has been      *)
(* closed exactly once when the run ends, whatever the exit path           *)
(* (completion, unreadable file, failed status parse, I/O failure).        *)
C1_ClosedOnceOnEveryExit ==
    (RunEnded /\ sock # "none") => (sock = "closed" /\ closes = 1)

(* C2: a dmi_read that returns None never ends the run: a run that ended   *)
(* without a socket or file error has reached Closed (and its final        *)
(* notices), also when the status read returned None.                      *)
C2_ParseFailureNeverFatal ==
    (RunEnded /\ exc \notin {"ConnectionRefusedError", "OSError", "FileNotFoundError"})
        => (pc = "done" /\ sock = "closed")

(* C3: every value written to SBCS (0x38) has bit 15 set and bits 19:17    *)
(* equal to 2.                                                             *)
C3_ConfigBits ==
    \A k \in 1..Len(trace) :
        IsConfigWrite(trace[k]) =>
            /\ Bit(trace[k].data, 15) = 1
            /\ (LimbAt(trace[k].data, 2) \div 2) % 8 = 2

----------------------------------------------------------------------------
(* The transfer loop in the trace *)

\* where msg was printed (it is printed at most once)
Pos(msg) == CHOOSE k \in 1..Len(trace) : IsPrint(trace[k], msg)

\* the DMI writes issued between "Writing" and "Done writing!"
LoopWrites ==
    IF ~Printed("Writing") THEN <<>>
    ELSE SelectSeq(SubSeq(trace, Pos("Writing") + 1,
                          IF Printed("Done writing!") THEN Pos("Done writing!")
                          ELSE Len(trace)),
                   IsWrite)

\* ceil(L/4) for the file's length L
CeilWords == (Len(binary) + 3) \div 4

\* byte k (from 1) of the file followed by zeros
PaddedByte(k) == IF k <= Len(binary) THEN binary[k] ELSE 0

\* the 64-bit value whose halves are lo and hi
Addr64(lo, hi) == Norm(<<LimbAt(lo, 1), LimbAt(lo, 2), LimbAt(hi, 1), LimbAt(hi, 2)>>)

\* v mod 2^64
Mod64(v) == Norm(SubSeq(v, 1, IF Len(v) < 4 THEN Len(v) ELSE 4))

\* the address written for the t-th word (from 1) of the loop's writes w
Written(w, t) == Addr64(w[3 * t - 2].data, w[3 * t - 1].data)

\* base + 4*i for the t-th word, i = t - 1
Target(t) == Add(base_addr, 4 * (t - 1))

\* the words both of whose address writes are among the writes w
AddressedWords(w) == 1..((Len(w) + 1) \div 3)

(* C4: the transfer loop's writes are SBAddress0 (0x39), SBAddress1       *)
(* (0x3A), SBData0 (0x3C) for word 0, then the same three for word 1, and  *)
(* so on; once the loop is over there are exactly ceil(L/4) triples.       *)
C4_TransferOrder ==
    LET w == LoopWrites
    IN  /\ \A j \in 1..Len(w) : w[j].addr = <<\h39, \h3A, \h3C>>[((j - 1) % 3) + 1]
        /\ Len(w) <= 3 * CeilWords
        /\ Printed("Done writing!") => Len(w) = 3 * CeilWords

C4_Witness ==
    /\ Printed("Done writing!")
    /\ Len(binary) = 17
    /\ Len(LoopWrites) = 15

(* C5, as claimed: the written 64-bit address of word i is base + 4*i and  *)
(* each is the one before plus 4.                                          *)
C5_AddressIsBasePlus4i ==
    LET w == LoopWrites
    IN  \A t \in AddressedWords(w) :
            /\ Written(w, t) = Target(t)
            /\ t > 1 => Written(w, t) = Add(Written(w, t - 1), 4)

(* C5, amended: the written 64-bit address of word i is (base + 4*i) mod   *)
(* 2^64, a function of base and i alone; it is base + 4*i, and the one     *)
(* before plus 4, as long as base + 4*i < 2^64.                            *)
C5_AddressIsBasePlus4iMod64 ==
    LET w == LoopWrites
    IN  \A t \in AddressedWords(w) :
            /\ Len(w[3 * t - 2].data) <= 2
            /\ Len(w[3 * t - 1].data) <= 2
            /\ Written(w, t) = Mod64(Target(t))
            /\ Len(Target(t)) <= 4 =>
                   /\ Written(w, t) = Target(t)
                   /\ t > 1 => Written(w, t) = Add(Written(w, t - 1), 4)

\* the third word of a run at base 0xFFFFFFF8: the low half has wrapped
C5_Witness ==
    /\ base_addr = <<\hFFF8, \hFFFF>>
    /\ 3 \in AddressedWords(LoopWrites)
    /\ Written(LoopWrites, 3) = <<0, 0, 1>>

(* C6: the padded image has length ceil(L/4)*4, starts with the file's L   *)
(* bytes and is zero from position L on.                                   *)
C6_Padding ==
    data # Unset =>
        /\ Len(data) = CeilWords * 4
        /\ \A k \in 1..Len(data) : data[k] = PaddedByte(k)

C6_Witness ==
    /\ data # Unset
    /\ Len(binary) = 6
    /\ Len(data) = 8
    /\ data[7] = 0

\* the file AA BB CC DD EE FF
Scenario == <<\hAA, \hBB, \hCC, \hDD, \hEE, \hFF>>

\* the values written to SBData0, in order
DataWrites == SelectSeq(trace, IsDataWrite)

(* C7: the value written to SBData0 for word i is b0 + 256*b1 + 65536*b2   *)
(* + 16777216*b3 of the padded image's bytes 4i..4i+3, within 0..2^32-1;   *)
(* the file AA BB CC DD EE FF gives 0xDDCCBBAA then 0x0000FFEE.            *)
C7_LittleEndianWords ==
    LET w == DataWrites
    IN  /\ \A t \in 1..Len(w) :
               LET v == w[t].data
               IN  /\ Len(v) <= 2
                   /\ \A k \in 1..Len(v) : v[k] \in 0..65535
                   /\ LimbAt(v, 1) = PaddedByte(4 * t - 3) + 256 * PaddedByte(4 * t - 2)
                   /\ LimbAt(v, 2) = PaddedByte(4 * t - 1) + 256 * PaddedByte(4 * t)
        /\ (binary = Scenario /\ Printed("Done writing!")) =>
               /\ Len(w) = 2
               /\ w[1].data = <<\hBBAA, \hDDCC>>
               /\ w[2].data = <<\hFFEE>>

C7_Witness ==
    /\ binary = Scenario
    /\ pc = "done"
    /\ Len(DataWrites) = 2

----------------------------------------------------------------------------
(* The parser's result, stated over the reply's lines *)

C8_Lower == <<"0", "1", "2", "3", "4", "5", "6", "7",
              "8", "9", "a", "b", "c", "d", "e", "f">>
C8_Upper == <<"0", "1", "2", "3", "4", "5", "6", "7",
              "8", "9", "A", "B", "C", "D", "E", "F">>

C8_IsHexDigit(c) == \E n \in 1..16 : C8_Lower[n] = c \/ C8_Upper[n] = c
C8_DigitValue(c) == (CHOOSE n \in 1..16 : C8_Lower[n] = c \/ C8_Upper[n] = c) - 1

\* the line is 0x followed by one or more hex digits and nothing else
C8_IsBareHex(l) ==
    /\ Len(l) > 2
    /\ SubSeq(l, 1, 2) = <<"0", "x">>
    /\ \A k \in 3..Len(l) : C8_IsHexDigit(l[k])

\* the line is the prompt or holds a command-echo token
C8_IsNoise(l) ==
    \/ l = <<">">>
    \/ Contains(l, tok_dmi_read)
    \/ Contains(l, tok_dmi_write)

\* the number a bare hex line denotes: its j-th digit from the right weighs 16^j
C8_Value(l) ==
    LET n == Len(l) - 2
        nib(j) == IF j < n THEN C8_DigitValue(l[Len(l) - j]) ELSE 0
    IN  Norm([m \in 1..((n + 3) \div 4) |->
                 nib(4 * m - 4) + 16 * nib(4 * m - 3)
                 + 256 * nib(4 * m - 2) + 4096 * nib(4 * m - 1)])

C8_Expected(text) ==
    LET ls == split(text)
        st == [k \in 1..Len(ls) |-> strip(ls[k])]
        cand == {k \in 1..Len(ls) : ~C8_IsNoise(st[k]) /\ C8_IsBareHex(st[k])}
    IN  IF cand = {} THEN None
        ELSE C8_Value(st[CHOOSE k \in cand : \A j \in cand : k <= j])

(* C8: dmi_read returns the value of the first line that, trimmed, is      *)
(* neither the prompt nor a command echo and is 0x followed by hex digits; *)
(* with no such line it returns None, never a number.                      *)
C8_ParserSelectivity ==
    pc = "parsed" => actual = C8_Expected(response)

\* an echo line, a value line and a prompt line: the value line's value
C8_Witness ==
    /\ pc = "parsed"
    /\ response = EchoRead \o <<"\r", "\n">> \o <<"0", "x", "1", "f", "\r">>
                  \o <<"\n">> \o <<">", " ">>
    /\ actual = <<31>>

----------------------------------------------------------------------------
(* The verification pass and the status check in the trace *)

VerifyLines == SelectSeq(trace, IsVerifyLine)

\* the run got past the verification loop without a socket or file error
PastVerification ==
    \/ pc \in {"status_report", "close", "done"}
    \/ pc = "aborted" /\ exc \notin {"ConnectionRefusedError", "OSError", "FileNotFoundError"}

(* C9: the verification pass reports on words 0, 1, 2, 3 in this order;    *)
(* a failed word does not keep the later ones from being checked, and a    *)
(* word is marked as passing exactly when its read-back value equals the   *)
(* expected word (of the padded image).                                    *)
C9_AllFourChecked ==
    LET v == VerifyLines
    IN  /\ Len(v) <= 4
        /\ \A k \in 1..Len(v) :
               /\ v[k].idx = k - 1
               /\ v[k].mark \in {"pass", "fail"}
               /\ v[k].mark = "pass" <=> v[k].got = v[k].expected
               /\ v[k].got = None => v[k].mark = "fail"
               /\ k <= CeilWords =>
                      /\ LimbAt(v[k].expected, 1)
                             = PaddedByte(4 * k - 3) + 256 * PaddedByte(4 * k - 2)
                      /\ LimbAt(v[k].expected, 2)
                             = PaddedByte(4 * k - 1) + 256 * PaddedByte(4 * k)
        /\ PastVerification => Len(v) = 4

\* word 0 unreadable, word 1 mismatching, words 2 and 3 equal
C9_Witness ==
    LET v == VerifyLines
    IN  /\ pc = "done"
        /\ Len(v) = 4
        /\ v[1].got = None
        /\ v[2].got # None /\ v[2].mark = "fail"
        /\ v[3].mark = "pass"
        /\ v[4].mark = "pass"

\* bits 14:12 of v are not all zero
ErrorFieldSet(v) == Bit(v, 12) = 1 \/ Bit(v, 13) = 1 \/ Bit(v, 14) = 1

(* C10: SBCS (0x38) is read once, after the four verification reports;     *)
(* when the read yields v the run warns of a bus error iff bits 14:12 of v *)
(* are not zero and reports no errors iff they are zero; no DMI write      *)
(* follows the status read.                                                *)
C10_StatusReport ==
    LET reads == {k \in 1..Len(trace) : IsStatusRead(trace[k])}
    IN  /\ Cardinality(reads) <= 1
        /\ \A k \in reads :
               /\ Len(SelectSeq(SubSeq(trace, 1, k), IsVerifyLine)) = 4
               /\ \A j \in (k + 1)..Len(trace) : ~IsWrite(trace[j])
        /\ pc = "status_report" =>
               /\ Cardinality(reads) = 1
               /\ ~Printed("Warning: SBCS reports sberror")
               /\ ~Printed("No SBA errors!")
        /\ pc \in {"close", "done"} =>
               /\ Cardinality(reads) = 1
               /\ sbcs # None
               /\ Printed("Warning: SBCS reports sberror") <=> ErrorFieldSet(sbcs)
               /\ Printed("No SBA errors!") <=> ~ErrorFieldSet(sbcs)

\* 0x20048807: bits 15 and 11 are set, the error field is zero
C10_Witness ==
    /\ pc = "done"
    /\ sbcs = <<\h8807, \h2004>>
    /\ Printed("No SBA errors!")

----------------------------------------------------------------------------
(* The order of the run *)

IsCommand(e) == e.op \in {"dmi_write", "dmi_read"}
IsAddrOrDataWrite(e) == e.op = "dmi_write" /\ e.addr \in {\h39, \h3A, \h3C}

\* the phase a statement belongs to: Idle 0, Connected 1, Configured 2,
\* Writing 3 (the buffer clearing closes it), Verifying 4, StatusChecked 5,
\* Closed 6; a run ended by an exception stays where it is
Phase(p) ==
    CASE p = "connect" -> 0
      [] p = "configure" -> 1
      [] p \in {"set_base_lo", "set_base_hi", "read_binary"} -> 2
      [] p \in {"for_write", "write_addr_hi", "write_data", "clear"} -> 3
      [] p \in {"for_verify", "verify_addr_hi", "verify_settle", "verify_read",
                "verify_report"} -> 4
      [] p \in {"status_report", "close"} -> 5
      [] p = "done" -> 6
      [] p = "aborted" -> 7

\* what the trace shows of the order of the commands
CommandOrder ==
    \A k \in 1..Len(trace) :
        LET e == trace[k]
            earlier(P(_)) == \E j \in 1..(k - 1) : P(trace[j])
            IsBanner(x) == x = RecvEv
            IsVerifying(x) == IsPrint(x, "Verifying")
            IsClose(x) == x.op = "close"
        IN  /\ IsCommand(e) => earlier(IsBanner)
            /\ IsAddrOrDataWrite(e) => earlier(IsConfigWrite)
            /\ IsDataWrite(e) => ~earlier(IsVerifying) /\ ~earlier(IsRead)
            /\ IsRead(e) => earlier(IsVerifying)
            /\ IsCommand(e) => ~earlier(IsClose)

(* C12: the phases Connected, Configured, Writing, Verifying,              *)
(* StatusChecked, Closed are entered in this order and never re-entered;   *)
(* no command precedes the banner read, the SBCS write precedes every      *)
(* address and data write, no SBData0 write follows the start of           *)
(* verification, no read precedes the last data write, and no command      *)
(* follows the close.                                                      *)
C12_PhaseOrder ==
    /\ []CommandOrder
    /\ [][Phase(pc') >= Phase(pc) /\ (pc = "aborted" => pc' = "aborted")]_vars

C12_Witness ==
    /\ pc = "done"
    /\ Len(binary) = 17
    /\ Printed("Verifying")
    /\ \E k \in 1..Len(trace) : trace[k].op = "close"

(* C13: once the status read has yielded a value the run ends in the same  *)
(* way whatever the verification showed: it is not ended by an exception,  *)
(* it can always take its next step, and at its end the session is closed  *)
(* and the final success notice printed.                                   *)
C13_OutcomeIndependent ==
    sbcs \notin {Unset, None} =>
        /\ pc \in {"status_report", "close", "done"}
        /\ pc # "done" => ENABLED Next
        /\ pc = "done" =>
               /\ sock = "closed"
               /\ closes = 1
               /\ Printed("Binary loaded successfully!")

\* a failed word, an unreadable word and a bus error, and the success notice
C13_Witness ==
    LET v == SelectSeq(trace, IsVerifyLine)
    IN  /\ pc = "done"
        /\ Len(v) = 4
        /\ v[1].got = None
        /\ v[2].got # None /\ v[2].mark = "fail"
        /\ ErrorFieldSet(sbcs)
        /\ Printed("Binary loaded successfully!")

(* C14: every read command is followed by a settle wait and only then by   *)
(* the receive of its reply; for each verified word the order is           *)
(* SBAddress0 write, SBAddress1 write, settle, SBData0 read command,       *)
(* settle, reply received.                                                 *)
C14_SettleOrder ==
    \A k \in 1..Len(trace) :
        /\ IsRead(trace[k]) =>
               /\ k + 2 <= Len(trace)
               /\ trace[k + 1].op = "sleep"
               /\ trace[k + 2].op = "recv"
        /\ (trace[k].op = "recv" /\ k > 2) =>
               /\ trace[k - 1].op = "sleep"
               /\ IsRead(trace[k - 2])
        /\ IsVerifyLine(trace[k]) =>
               /\ k > 6
               /\ trace[k - 6].op = "dmi_write" /\ trace[k - 6].addr = \h39
               /\ trace[k - 5].op = "dmi_write" /\ trace[k - 5].addr = \h3A
               /\ trace[k - 4].op = "sleep"
               /\ trace[k - 3].op = "dmi_read" /\ trace[k - 3].addr = \h3C
               /\ trace[k - 2].op = "sleep"
               /\ trace[k - 1].op = "recv"

C14_Witness ==
    /\ pc = "status_report"
    /\ Len(SelectSeq(trace, IsVerifyLine)) = 4
    /\ trace[Len(trace) - 1] = SleepEv(100)
    /\ trace[Len(trace) - 2] = ReadEv(\h38)

(* C17: every address set during the verification pass is one the          *)
(* transfer loop wrote a data word to, and every expected value is the     *)
(* word of the padded image at that address, for images of any length.     *)
C17_VerifiesWhatWasWritten ==
    LET w == LoopWrites
    IN  \A k \in 1..Len(trace) :
            IsVerifyLine(trace[k]) =>
                \E t \in 1..(Len(w) \div 3) :
                    /\ t <= CeilWords
                    /\ trace[k - 6].data = w[3 * t - 2].data
                    /\ trace[k - 5].data = w[3 * t - 1].data
                    /\ trace[k].expected = w[3 * t].data

(* C11: dmi_write always completes, whether or not the bridge ever       *)
(* replies: it receives once, for at most the bounded interval, a timeout  *)
(* is a normal outcome, it returns None, and on the reply path and on the  *)
(* timeout path alike the socket is blocking (no timeout) when it returns. *)
InWrite == step \in {"w_settimeout", "w_recv", "w_return"}

C11_WriteCompletes ==
    /\ [](step = "w_return" =>
              /\ timeout = "None"
              /\ path \in {"reply", "timeout"}
              /\ exc = "none")
    /\ [][step = "w_recv" /\ step' # "w_recv" => step' = "w_return"]_vars
    /\ [][step = "w_return" /\ step' # "w_return" =>
              /\ step' = "idle"
              /\ ret' = None
              /\ timeout' = "None"
              /\ pc' \notin {"aborted", pc}]_vars
    /\ InWrite ~> (step = "idle")

\* a write the bridge never answered has timed out and is about to return
C11_Witness ==
    /\ step = "w_return"
    /\ path = "timeout"
    /\ timeout = "None"
    /\ rx = <<>> /\ wire = <<>> /\ peer = "up"
    /\ pc = "verify_addr_hi" /\ i = 3

(* C15: every value dmi_read returns for a read command is the value of    *)
(* the bridge's reply to that same command, never of an earlier reply,     *)
(* whenever the bridge's replies arrive.                                   *)
C15_ValueFromOwnReply ==
    (step = "r_return" /\ ret # None) => ret = ReplyValue(serial)

\* what does hold: a read sent with no reply outstanding, whose whole reply and
\* nothing else is buffered when it receives, returns that reply's value
FramedReadReturnsOwnValue ==
    step = "r_return" =>
        /\ framed = "value" => ret = ReplyValue(serial)
        /\ framed = "empty" => ret = None

(* C16: the clearing of the socket buffer between the transfer loop and    *)
(* the verification pass always ends and verification begins, whatever     *)
(* the bridge does, closing the connection included.                       *)
C16_ClearTerminates ==
    (pc \in {"clear", "clear_recv"}) ~> (pc = "for_verify")

====
